---- MODULE Spec2Model ----
(***************************************************************************)
(* Model of the agent-based stepping engine of                             *)
(* src/archive/run_abm_no_social_updates.py: Sim.__init__, the social-link *)
(* creation of Ref, Sim.step (score update, process_refs / find_new_node,  *)
(* merge of the batch results, seeding) and Sim.run.                       *)
(*                                                                         *)
(* Numbers.  The program computes scores in floating point.  The model     *)
(* computes them exactly, as fractions <<numerator, denominator>> with a   *)
(* positive denominator, so that every comparison the code makes           *)
(* (desirability > most_desirable_score, random.random() < percent) is     *)
(* decided as the real numbers decide it.                                  *)
(*                                                                         *)
(* Indices.  Agents are the elements of the Python list all_refugees;      *)
(* agent index i (0-based, as in the code) is all_refugees[i + 1] here.    *)
(* Node ids are the integers of the test graph (line 463): 0, 1, 2.        *)
(***************************************************************************)
EXTENDS Integers, Sequences, FiniteSets, TLC

(* ------------------------------ bounds ------------------------------- *)

\* Largest initial population (sum of the initial node weights).
MaxRefs == 2

\* Largest num_steps.
MaxSteps == 2

\* Largest number of edges of the location graph.
MaxEdges == 2

\* Largest weight, num_camps and num_conflicts of a node where the scores
\* and the chunks are computed on their own.
MaxCount == 2

\* Largest num_batches where the chunks are computed on their own.
MaxBatches == 4

(* ----------------------------- fractions ----------------------------- *)

RECURSIVE GCD(_, _)
GCD(a, b) == IF b = 0 THEN a ELSE GCD(b, a % b)

Abs(n) == IF n < 0 THEN 0 - n ELSE n

\* The fraction n / d (d > 0), in lowest terms.
Rat(n, d) == LET g == GCD(Abs(n), d) IN <<n \div g, d \div g>>

RatAdd(a, b) == Rat(a[1] * b[2] + b[1] * a[2], a[2] * b[2])

RatMul(a, b) == Rat(a[1] * b[1], a[2] * b[2])

\* a > b
RatGt(a, b) == a[1] * b[2] > b[1] * a[2]

\* a < b
RatLt(a, b) == a[1] * b[2] < b[1] * a[2]

(* ------------------------------ helpers ------------------------------ *)

\* Python's None (find_new_node returns it for an isolate, line 113, and
\* when no neighbor beat the initial score, line 108).
None == -1

\* Truthy without the test of line 157: whatever find_new_node returns is
\* assigned to the copy's node.
Truthy_unchecked(v) == TRUE

\* Python truthiness of a node id or None, as tested by `if new_node:`.
Truthy(v) == v /= None /\ v /= 0

RECURSIVE SeqSum(_)
SeqSum(s) == IF s = <<>> THEN 0 ELSE Head(s) + SeqSum(Tail(s))

RECURSIVE SeqMax(_)
\* max() of a non-empty list
SeqMax(s) == IF Len(s) = 1 THEN s[1]
             ELSE LET m == SeqMax(Tail(s)) IN IF s[1] > m THEN s[1] ELSE m

\* list.count(v)
Count(s, v) == Cardinality({i \in 1..Len(s) : s[i] = v})

RECURSIVE Flatten(_)
\* concatenation of a list of lists, in list order
Flatten(ss) == IF ss = <<>> THEN <<>> ELSE Head(ss) \o Flatten(Tail(ss))

\* [v] * n
Repeat(v, n) == [i \in 1..n |-> v]

\* [x for x in range(lo, hi)]
Range(lo, hi) == [i \in 1..(hi - lo) |-> lo + i - 1]

\* The values of a dict (a function on nodes) in the order of node list nl.
Values(nl, f) == [i \in 1..Len(nl) |-> f[nl[i]]]

\* The keys of a dict of agent indices, ascending (kin_list and friend_list
\* only ever receive keys; iteration order does not matter to .count()).
RECURSIVE SetToSeq(_)
SetToSeq(S) == IF S = {} THEN <<>>
               ELSE LET m == CHOOSE v \in S : \A w \in S : v <= w
                    IN <<m>> \o SetToSeq(S \ {m})

(* ------------------------- the location graph ------------------------ *)

\* neighbors giving every other node of the graph, in node order.
neighbors_any(g, node) == SelectSeq(g.nodes, LAMBDA n : n /= node)

\* list(sim.graph.neighbors(node)): networkx keeps the neighbors of a node
\* in the order in which its edges were added.
neighbors(g, node) ==
  LET F[i \in 0..Len(g.edges)] ==
        IF i = 0 THEN <<>>
        ELSE LET e == g.edges[i]
             IN IF e[1] = node THEN Append(F[i - 1], e[2])
                ELSE IF e[2] = node THEN Append(F[i - 1], e[1])
                ELSE F[i - 1]
  IN F[Len(g.edges)]

\* Ref(node, num_refugees): a new agent.  id is not a field of the code's
\* Ref: it names the object, so that "the same agent" can be stated.
Ref(node, id) == [id |-> id, node |-> node, kin_list |-> {}, friend_list |-> {}]

(* --------------------------- find_new_node --------------------------- *)

\* The initial most_desirable_score.
most_desirable_score == -99

\* desirability of neighbor n for agent ref (lines 120-124)
desirability(sim, ref, n) ==
  LET me == sim.all_refugees[ref + 1]
      kin == SetToSeq(me.kin_list)
      friends == SetToSeq(me.friend_list)
      kin_nodes == [k \in 1..Len(kin) |-> sim.all_refugees[kin[k] + 1].node]
      friend_nodes == [k \in 1..Len(friends) |-> sim.all_refugees[friends[k] + 1].node]
      kin_at_node == Count(kin_nodes, n)
      friends_at_node == Count(friend_nodes, n)
  IN RatAdd(RatAdd(RatMul(Rat(kin_at_node, 1), sim.config.kin_weight),
                   RatMul(Rat(friends_at_node, 1), sim.config.friend_weight)),
            sim.graph.node_score[n])

\* find_new_node(sim, node, ref): a node id, or None
find_new_node(sim, node, ref) ==
  LET nbrs == neighbors(sim.graph, node)
      best[i \in 0..Len(nbrs)] ==
        IF i = 0
        THEN [score |-> Rat(most_desirable_score, 1), neighbor |-> None]
        ELSE LET d == desirability(sim, ref, nbrs[i])
             IN IF RatGt(d, best[i - 1].score)
                THEN [score |-> d, neighbor |-> nbrs[i]]
                ELSE best[i - 1]
  IN IF Len(nbrs) = 0 THEN None ELSE best[Len(nbrs)].neighbor

(* ---------------------------- process_refs --------------------------- *)

\* No call of random.random() was made for the agent (conflict zone): 1 is
\* not a value of random.random().
NoDraw == <<1, 1>>

\* The values random.random() returns in the model: 1/2 and 9/10.
Draws == {Rat(1, 2), Rat(9, 10)}

\* move_decision with the camp and the other branch exchanged.
move_decision_swapped(cfg, num_conflicts, num_camps, r) ==
  IF num_conflicts > 0 THEN TRUE
  ELSE IF num_camps > 0 THEN RatLt(r, cfg.percent_move_other)
  ELSE RatLt(r, cfg.percent_move_at_camp)

\* move_decision consulting percent_move_at_conflict in a conflict zone.
move_decision_conflict_percent(cfg, num_conflicts, num_camps, r) ==
  IF num_conflicts > 0 THEN RatLt(r, cfg.percent_move_at_conflict)
  ELSE IF num_camps > 0 THEN RatLt(r, cfg.percent_move_at_camp)
  ELSE RatLt(r, cfg.percent_move_other)

\* Lines 143-151: the move decision; r is the value random.random() returns.
move_decision(cfg, num_conflicts, num_camps, r) ==
  IF num_conflicts > 0 THEN TRUE
  ELSE IF num_camps > 0 THEN RatLt(r, cfg.percent_move_at_camp)
  ELSE RatLt(r, cfg.percent_move_other)

\* A cell of the pandas DataFrame of line 291: a number, or a list.
IntCell(v) == [numeric |-> TRUE, value |-> v]

ListCell == [numeric |-> FALSE, value |-> 0]

\* relocated building a new Ref at the new node instead of changing the copy.
relocated_fresh(copy, new_node) == Ref(new_node, copy.id)

\* Lines 153 and 158: the deep copy of an agent, with its node replaced.
relocated(copy, new_node) == [copy EXCEPT !.node = new_node]

\* process_locals changing sim.all_refugees in place: an agent processed
\* later reads the new locations of the agents processed before it.
process_locals_in_place(refs, sim, draws) ==
  LET zero == [n \in sim.graph.nodeset |-> 0]
      L[x \in 0..Len(refs)] ==
        IF x = 0
        THEN [new_refs |-> <<>>, new_weights |-> zero, moves |-> <<>>, dests |-> <<>>,
              cur |-> sim.all_refugees]
        ELSE LET ref == refs[x]
                 now == [sim EXCEPT !.all_refugees = L[x - 1].cur]
                 node == now.all_refugees[ref + 1].node
                 move == move_decision(sim.config, sim.graph.num_conflicts[node],
                                       sim.graph.num_camps[node], draws[ref + 1])
                 new_node == IF move THEN find_new_node(now, node, ref) ELSE None
                 copy == now.all_refugees[ref + 1]
                 moved == IF move /\ Truthy(new_node) THEN relocated(copy, new_node)
                          ELSE copy
             IN [new_refs |-> Append(L[x - 1].new_refs, moved),
                 new_weights |-> zero,
                 moves |-> Append(L[x - 1].moves, move),
                 dests |-> Append(L[x - 1].dests, new_node),
                 cur |-> [L[x - 1].cur EXCEPT ![ref + 1] = moved]]
  IN L[Len(refs)]

\* The local variables of process_refs after its loop; draws[ref + 1] is the
\* value random.random() returns for agent ref.  moves and dests record the
\* decision and the result of find_new_node for each agent of refs.
process_locals(refs, sim, draws) ==
  LET zero == [n \in sim.graph.nodeset |-> 0]
      L[x \in 0..Len(refs)] ==
        IF x = 0
        THEN [new_refs |-> <<>>, new_weights |-> zero, moves |-> <<>>, dests |-> <<>>]
        ELSE LET ref == refs[x]
                 node == sim.all_refugees[ref + 1].node
                 move == move_decision(sim.config, sim.graph.num_conflicts[node],
                                       sim.graph.num_camps[node], draws[ref + 1])
                 new_node == IF move THEN find_new_node(sim, node, ref) ELSE None
                 copy == sim.all_refugees[ref + 1]
             IN IF move /\ Truthy(new_node)
                THEN [new_refs |-> Append(L[x - 1].new_refs, relocated(copy, new_node)),
                      new_weights |-> [n \in sim.graph.nodeset |->
                                         zero[n] - (IF n = node THEN 1 ELSE 0)
                                                 + (IF n = new_node THEN 1 ELSE 0)],
                      moves |-> Append(L[x - 1].moves, move),
                      dests |-> Append(L[x - 1].dests, new_node)]
                ELSE [new_refs |-> Append(L[x - 1].new_refs, copy),
                      new_weights |-> zero,
                      moves |-> Append(L[x - 1].moves, move),
                      dests |-> Append(L[x - 1].dests, new_node)]
  IN L[Len(refs)]

\* process_refs(refs, sim): (new_refs, ref_nodes).  Line 166 returns ref_nodes,
\* the dict of empty lists of line 134, not new_weights.
process_refs(refs, sim, draws) ==
  LET l == process_locals(refs, sim, draws)
  IN [new_refs |-> l.new_refs,
      row |-> [n \in sim.graph.nodeset |-> ListCell],
      moves |-> l.moves,
      dests |-> l.dests]

(* ------------------------------ Sim.step ----------------------------- *)

\* max_pop of line 245
max_pop(g) == SeqMax(Values(g.nodes, g.weight))

\* norm_weights without the division: the weights themselves.
norm_weights_unscaled(g) == [n \in g.nodeset |-> Rat(g.weight[n], 1)]

\* Lines 245-247: norm_weights (max_pop /= 0).
norm_weights(g) == [n \in g.nodeset |-> Rat(g.weight[n], max_pop(g))]

\* Lines 251-253: the normalised num_camps.
norm_camps(g) ==
  LET max_camps == SeqMax(Values(g.nodes, g.num_camps) \o <<1>>)
  IN [n \in g.nodeset |-> Rat(g.num_camps[n], max_camps)]

\* Lines 256-258: the normalised num_conflicts.
norm_conflicts(g) ==
  LET max_conflict == SeqMax(Values(g.nodes, g.num_conflicts) \o <<1>>)
  IN [n \in g.nodeset |-> Rat(g.num_conflicts[n], max_conflict)]

\* update_scores left out: the graph keeps the scores it had.
update_scores_skipped(g, cfg) == g

\* Lines 244-268: norm_weight and node_score of every node (max_pop /= 0).
update_scores(g, cfg) ==
  LET score(n) ==
        RatAdd(RatAdd(RatAdd(RatMul(norm_weights(g)[n], cfg.population_weight),
                             RatMul(g.location_score[n], cfg.location_weight)),
                      RatMul(norm_camps(g)[n], cfg.camp_weight)),
               RatMul(RatMul(norm_conflicts(g)[n], Rat(-1, 1)),
                      cfg.conflict_weight))
  IN [g EXCEPT !.norm_weight = norm_weights(g),
               !.node_score = [n \in g.nodeset |-> score(n)]]

\* array_split with k chunks of n div k each: the rest of the division is
\* in no chunk.
array_split_floor(n, k) ==
  [b \in 1..k |-> Range((b - 1) * (n \div k), b * (n \div k))]

\* np.array_split(range(n), k): k contiguous chunks, the first n mod k of
\* size n div k + 1, the others of size n div k.
array_split(n, k) ==
  LET q == n \div k
      r == n % k
      start(b) == (b - 1) * q + (IF b - 1 < r THEN b - 1 ELSE r)
      size(b) == q + (IF b - 1 < r THEN 1 ELSE 0)
  IN [b \in 1..k |-> Range(start(b), start(b) + size(b))]

\* merge_refugees keeping the agents of the first result only.
merge_refugees_first(results) == results[1].new_refs

\* merge_refugees taking the results last to first.
merge_refugees_reversed(results) ==
  Flatten([b \in 1..Len(results) |-> results[Len(results) + 1 - b].new_refs])

\* Lines 285-288: the agents of the results, in the order of the results.
merge_refugees(results) ==
  Flatten([b \in 1..Len(results) |-> results[b].new_refs])

\* Lines 286-293: pd.DataFrame(rows).sum(numeric_only=True) sums the columns
\* all of whose cells are numbers; zip(self.graph.nodes, ...) pairs the sums
\* with the first nodes; set_node_attributes sets 'weight' for those nodes.
merge_weights(g, results) ==
  LET rows == <<[n \in g.nodeset |-> IntCell(g.weight[n])]>>
              \o [b \in 1..Len(results) |-> results[b].row]
      numeric(n) == \A i \in 1..Len(rows) : rows[i][n].numeric
      cols == SelectSeq(g.nodes, numeric)
      sums == [c \in 1..Len(cols) |->
                 SeqSum([i \in 1..Len(rows) |-> rows[i][cols[c]].value])]
  IN [n \in g.nodeset |->
        IF \E c \in 1..Len(sums) : g.nodes[c] = n
        THEN sums[CHOOSE c \in 1..Len(sums) : g.nodes[c] = n]
        ELSE g.weight[n]]

\* seed without line 300: the agents are appended, no weight is increased.
seed_without_weights(cfg, g, refs, nrefs) ==
  LET sn == cfg.seed_nodes
      S[i \in 0..Len(sn)] ==
        IF i = 0 THEN refs
        ELSE S[i - 1] \o [k \in 1..cfg.seed_refs |-> Ref(sn[i], Len(S[i - 1]) + k - 1)]
  IN IF cfg.seed_refs > 0
     THEN [graph |-> g,
           all_refugees |-> S[Len(sn)],
           num_refugees |-> nrefs + cfg.seed_refs * Len(sn),
           error |-> "AttributeError"]
     ELSE [graph |-> g, all_refugees |-> refs, num_refugees |-> nrefs, error |-> "none"]

\* Lines 295-304: seeding.  The result is the state in which the step ends:
\* a seed node that is not in the graph raises KeyError at line 300, and
\* Ref has no method create_social_links, so line 304 raises AttributeError
\* for the first new agent.
seed(cfg, g, refs, nrefs) ==
  LET sn == cfg.seed_nodes
      S[i \in 0..Len(sn)] ==
        IF i = 0 THEN [graph |-> g, all_refugees |-> refs, error |-> "none"]
        ELSE LET p == S[i - 1]
             IN IF p.error /= "none" THEN p
                ELSE IF sn[i] \notin g.nodeset THEN [p EXCEPT !.error = "KeyError"]
                ELSE [graph |-> [p.graph EXCEPT !.weight[sn[i]] = @ + cfg.seed_refs],
                      all_refugees |-> p.all_refugees \o
                          [k \in 1..cfg.seed_refs |->
                              Ref(sn[i], Len(p.all_refugees) + k - 1)],
                      error |-> "none"]
      new_num == nrefs + cfg.seed_refs * Len(sn)
      after == S[Len(sn)]
  IN IF cfg.seed_refs > 0
     THEN [graph |-> after.graph,
           all_refugees |-> after.all_refugees,
           num_refugees |-> new_num,
           error |-> IF after.error /= "none" THEN after.error
                     ELSE IF nrefs < new_num THEN "AttributeError"
                     ELSE "none"]
     ELSE [graph |-> g, all_refugees |-> refs, num_refugees |-> nrefs, error |-> "none"]

\* Lines 285-304: the part of step after the results are in.
finish_step(cfg, g, nrefs, results) ==
  seed(cfg, [g EXCEPT !.weight = merge_weights(g, results)],
       merge_refugees(results), nrefs)

(* ----------------------- inputs of a simulation ---------------------- *)

\* The nodes of the graph, in the order of graph.nodes, and a node id that
\* is not in the graph (a seed node may name one).
NodeList == <<0, 1, 2>>

Nodes == {NodeList[i] : i \in 1..Len(NodeList)}

MissingNode == 3

\* The edges a graph may have, and the graphs: every list of at most
\* MaxEdges different edges, in the order in which they were added.
EdgeUniverse == {<<0, 1>>, <<1, 2>>, <<0, 2>>}

EdgeLists ==
  {es \in UNION {[1..k -> EdgeUniverse] : k \in 0..MaxEdges} :
     \A i, j \in 1..Len(es) : i /= j => es[i] /= es[j]}

\* Initial weights: at most MaxRefs agents in all.
WeightMaps == {w \in [Nodes -> 0..MaxRefs] : SeqSum(Values(NodeList, w)) <= MaxRefs}

\* num_conflicts and num_camps: at most one node has a conflict, at most
\* one has a camp.
HotMaps == {h \in [Nodes -> 0..1] : SeqSum(Values(NodeList, h)) <= 1}

\* location_score: 0.5 everywhere (line 474), or rising with the node id.
LocationScores == {[n \in Nodes |-> Rat(1, 2)], [n \in Nodes |-> Rat(n, 2)]}

\* (percent_move_at_camp, percent_move_at_conflict, percent_move_other):
\* the values of lines 63-67, and two others.
PercentChoices ==
  {<<Rat(3, 10), Rat(1, 1), Rat(7, 10)>>,
   <<Rat(1, 1), Rat(0, 1), Rat(0, 1)>>,
   <<Rat(3, 4), Rat(1, 1), Rat(1, 1)>>}

\* (population, location, camp, conflict, kin, friend) weights: the values
\* of lines 73-78, kin_weight 0, kin_weight 2, conflict_weight 100.
WeightChoices ==
  {<<Rat(1, 4), Rat(1, 4), Rat(1, 4), Rat(1, 4), Rat(1, 4), Rat(1, 4)>>,
   <<Rat(1, 4), Rat(1, 4), Rat(1, 4), Rat(1, 4), Rat(0, 1), Rat(1, 4)>>,
   <<Rat(1, 4), Rat(1, 4), Rat(1, 4), Rat(1, 4), Rat(2, 1), Rat(1, 4)>>,
   <<Rat(1, 4), Rat(1, 4), Rat(1, 4), Rat(100, 1), Rat(1, 4), Rat(1, 4)>>}

\* (num_processes, num_batches)
ParallelChoices == {<<1, 1>>, <<2, 1>>, <<2, 2>>}

\* (seed_refs, seed_nodes)
SeedChoices ==
  {<<0, <<1>>>>, <<1, <<1>>>>, <<2, <<2, 0>>>>, <<1, <<2, MissingNode>>>>}

\* num_kin and num_friends: an int, or a (low, high) tuple.
IntSpec(k) == [int |-> TRUE, lo |-> k, hi |-> k]

TupleSpec(lo, hi) == [int |-> FALSE, lo |-> lo, hi |-> hi]

SocialChoices == {IntSpec(1), IntSpec(0), TupleSpec(0, 1)}

\* The config dict of lines 27-89, as far as the engine reads it.
Config(pc3, w6, par, sd, soc, steps) ==
  [num_steps |-> steps,
   num_friends |-> soc,
   num_kin |-> soc,
   percent_move_at_camp |-> pc3[1],
   percent_move_at_conflict |-> pc3[2],
   percent_move_other |-> pc3[3],
   population_weight |-> w6[1],
   location_weight |-> w6[2],
   camp_weight |-> w6[3],
   conflict_weight |-> w6[4],
   kin_weight |-> w6[5],
   friend_weight |-> w6[6],
   seed_refs |-> sd[1],
   seed_nodes |-> sd[2],
   num_processes |-> par[1],
   num_batches |-> par[2]]

\* The values of lines 63-67 and of lines 73-78.
SourcePercents == <<Rat(3, 10), Rat(1, 1), Rat(7, 10)>>

SourceWeights == <<Rat(1, 4), Rat(1, 4), Rat(1, 4), Rat(1, 4), Rat(1, 4), Rat(1, 4)>>

\* The configurations in which the movement parameters vary: the sequential
\* engine without seeding, one kin and one friend per agent, one step
\* (line 56).
MoveConfigs ==
  {Config(p, SourceWeights, <<1, 1>>, <<0, <<1>>>>, IntSpec(1), 1) :
     p \in PercentChoices}
  \cup
  {Config(SourcePercents, w, <<1, 1>>, <<0, <<1>>>>, IntSpec(1), 1) :
     w \in WeightChoices}

\* The configurations in which the parallel, seeding and social parameters
\* and num_steps vary, with the movement parameters of the source.
EngineConfigs ==
  {Config(SourcePercents, SourceWeights, par, sd, soc, st) :
     par \in ParallelChoices, sd \in SeedChoices, soc \in SocialChoices,
     st \in {MaxSteps}}
  \cup
  {Config(SourcePercents, SourceWeights, par, <<0, <<1>>>>, IntSpec(1), st) :
     par \in ParallelChoices, st \in 1..MaxSteps}

\* The graph handed to Sim: networkx graph with its node attributes.
\* norm_weight and node_score are set by the first step; until then the
\* attributes do not exist and are never read.
Graph(es, w, conf, camps, loc) ==
  [nodes |-> NodeList,
   nodeset |-> Nodes,
   edges |-> es,
   weight |-> w,
   num_conflicts |-> conf,
   num_camps |-> camps,
   location_score |-> loc,
   norm_weight |-> [n \in Nodes |-> Rat(0, 1)],
   node_score |-> [n \in Nodes |-> Rat(0, 1)]]

Graphs ==
  {Graph(es, w, conf, camps, loc) :
     es \in EdgeLists, w \in WeightMaps, conf \in HotMaps, camps \in HotMaps,
     loc \in LocationScores}

\* The graphs without conflicts and camps and with the location_score of
\* line 474.
PlainGraphs ==
  {g \in Graphs : /\ \A n \in Nodes : g.num_conflicts[n] = 0
                  /\ \A n \in Nodes : g.num_camps[n] = 0
                  /\ \A n \in Nodes : g.location_score[n] = Rat(1, 2)}

\* The simulations of the model: every graph with the movement
\* configurations, the plain graphs with the engine configurations.
Inputs == (Graphs \X MoveConfigs) \cup (PlainGraphs \X EngineConfigs)

(* ------------------------------- state ------------------------------- *)

VARIABLES
  config,        \* the config dict
  graph,         \* Sim.graph
  all_refugees,  \* Sim.all_refugees
  num_refugees,  \* Sim.num_refugees
  pc,            \* "construct": in Sim.__init__; "loop": in a partner loop
                 \* that has no exit; "run": in Sim.run, between steps;
                 \* "map": in Sim.step, waiting for pool.map; "done": Sim.run
                 \* has returned; "error": an exception ended it
  index,         \* the loop index of Sim.__init__ (lines 234, 237)
  x,             \* the number of steps Sim.run has completed
  results,       \* the results of pool.map, one per chunk ("pending" until a
                 \* worker has returned it)
  error,         \* the exception that ended the program, or "none"
  last           \* history: the state the current or last step started from,
                 \* and what process_refs drew, decided and found per agent

vars == <<config, graph, all_refugees, num_refugees, pc, index, x, results, error, last>>

\* Lines 229-231: the agents of every node, node by node.
initial_refugees(g) ==
  LET per == [i \in 1..Len(g.nodes) |-> Repeat(g.nodes[i], g.weight[g.nodes[i]])]
      flat == Flatten(per)
  IN [i \in 1..Len(flat) |-> Ref(flat[i], i - 1)]

NoHistory ==
  [status |-> "none", all_refugees |-> <<>>, graph |-> <<>>, num_refugees |-> 0,
   draws |-> <<>>, moves |-> <<>>, dests |-> <<>>]

\* Sim.__init__, lines 224-231: the state in which the link loops start.
Init ==
  \E in \in Inputs :
   LET g == in[1]
       c == in[2]
   IN
    /\ config = c
    /\ graph = g
    /\ all_refugees = initial_refugees(g)
    /\ num_refugees = SeqSum(Values(g.nodes, g.weight))
    /\ pc = IF Len(initial_refugees(g)) = 0 THEN "run" ELSE "construct"
    /\ index = 0
    /\ x = 0
    /\ results = <<>>
    /\ error = "none"
    /\ last = NoHistory

(* --------------------- Sim.__init__: social links -------------------- *)

\* The indices random.randint(0, num_refugees - 1) can return that end the
\* loop `while kin == index`.
partners(idx, nrefs) == (0..(nrefs - 1)) \ {idx}

\* add_links without lines 187 and 196: the link is set for idx only.
add_links_one_way(refs, idx, ks, fs) ==
  [i \in 1..Len(refs) |->
     [refs[i] EXCEPT
        !.kin_list = IF i - 1 = idx THEN @ \cup ks ELSE @,
        !.friend_list = IF i - 1 = idx THEN @ \cup fs ELSE @]]

\* The effect of the assignments of lines 185-187 and 194-196 for agent idx
\* with the kin drawn ks and the friends drawn fs.
add_links(refs, idx, ks, fs) ==
  [i \in 1..Len(refs) |->
     [refs[i] EXCEPT
        !.kin_list = IF i - 1 = idx THEN @ \cup ks
                     ELSE IF i - 1 \in ks THEN @ \cup {idx} ELSE @,
        !.friend_list = IF i - 1 = idx THEN @ \cup fs
                        ELSE IF i - 1 \in fs THEN @ \cup {idx} ELSE @]]

\* The set of the values of a list
Elems(s) == {s[i] : i \in 1..Len(s)}

\* Lines 233-235: ref.create_defined_social_links(index, self) for the next
\* agent.  Every draw of a partner is a draw with an index other than the
\* agent's own; with no such index the loop of line 183 does not end.
create_defined_social_links ==
  /\ pc = "construct"
  /\ config.num_friends.int
  /\ \E ks \in [1..config.num_kin.lo -> partners(index, num_refugees)],
        fs \in [1..config.num_friends.lo -> partners(index, num_refugees)] :
       all_refugees' = add_links(all_refugees, index, Elems(ks), Elems(fs))
  /\ index' = index + 1
  /\ pc' = IF index + 1 = Len(all_refugees) THEN "run" ELSE "construct"
  /\ UNCHANGED <<config, graph, num_refugees, x, results, error, last>>

\* Lines 236-238: ref.create_random_social_links(index, self) for the next
\* agent: the numbers of kin and of friends are drawn from (low, high).
create_random_social_links ==
  /\ pc = "construct"
  /\ ~config.num_friends.int
  /\ \E nk \in config.num_kin.lo..config.num_kin.hi,
        nf \in config.num_friends.lo..config.num_friends.hi :
       \E ks \in [1..nk -> partners(index, num_refugees)],
          fs \in [1..nf -> partners(index, num_refugees)] :
         all_refugees' = add_links(all_refugees, index, Elems(ks), Elems(fs))
  /\ index' = index + 1
  /\ pc' = IF index + 1 = Len(all_refugees) THEN "run" ELSE "construct"
  /\ UNCHANGED <<config, graph, num_refugees, x, results, error, last>>

\* The numbers of kin and of friends the code may ask for, for the next
\* agent: range(config['num_kin']) and range(config['num_friends']) (lines
\* 181, 190), or a draw of random.randint(low, high) (lines 200, 209).
link_counts ==
  IF config.num_friends.int
  THEN {<<config.num_kin.lo, config.num_friends.lo>>}
  ELSE (config.num_kin.lo..config.num_kin.hi)
         \X (config.num_friends.lo..config.num_friends.hi)

\* Lines 182-184 (191-193, 201-203, 210-212) for an agent that has no partner
\* to draw: random.randint(0, num_refugees - 1) returns only the agent's own
\* index, and `while kin == index` has no exit.
partner_loop_spins ==
  /\ pc = "construct"
  /\ partners(index, num_refugees) = {}
  /\ \E c \in link_counts : c[1] >= 1 \/ c[2] >= 1
  /\ pc' = "loop"
  /\ UNCHANGED <<config, graph, all_refugees, num_refugees, index, x, results, error, last>>

(* ------------------------- Sim.run and Sim.step ---------------------- *)

\* What random.random() can return for the agents of refs: a draw for an
\* agent outside a conflict zone, no draw for the others.
draw_assignments(refs, sim) ==
  {d \in [1..Len(sim.all_refugees) -> Draws \cup {NoDraw}] :
     \A i \in 1..Len(sim.all_refugees) :
       d[i] \in Draws <=>
         /\ (i - 1) \in Elems(refs)
         /\ sim.graph.num_conflicts[sim.all_refugees[i].node] = 0}

\* The Sim object the workers read.
Sim(g) == [config |-> config, graph |-> g, all_refugees |-> all_refugees]

\* The state a step starts from.
StartOfStep(status) ==
  [status |-> status,
   all_refugees |-> all_refugees,
   graph |-> graph,
   num_refugees |-> num_refugees,
   draws |-> [i \in 1..Len(all_refugees) |-> NoDraw],
   moves |-> [i \in 1..Len(all_refugees) |-> FALSE],
   dests |-> [i \in 1..Len(all_refugees) |-> None]]

\* Line 246 with max_pop = 0: ZeroDivisionError leaves step and run.
step_fails_at_scores ==
  /\ pc' = "error"
  /\ error' = "ZeroDivisionError"
  /\ last' = StartOfStep("failed")
  /\ UNCHANGED <<config, graph, all_refugees, num_refugees, index, x, results>>

\* The end of step (lines 285-304) and the return to run (lines 308-326).
step_ends(g, res, hist) ==
  LET fin == finish_step(config, g, num_refugees, res)
  IN /\ graph' = fin.graph
     /\ all_refugees' = fin.all_refugees
     /\ num_refugees' = fin.num_refugees
     /\ error' = fin.error
     /\ x' = IF fin.error = "none" THEN x + 1 ELSE x
     /\ pc' = IF fin.error /= "none" THEN "error"
              ELSE IF x + 1 = config.num_steps THEN "done" ELSE "run"
     /\ last' = [hist EXCEPT !.status = IF fin.error = "none" THEN "completed" ELSE "failed"]
     /\ results' = <<>>
     /\ UNCHANGED <<config, index>>

\* One iteration of the loop of run with num_processes <= 1 (line 283): the
\* whole of step.
step_sequential ==
  /\ pc = "run"
  /\ x < config.num_steps
  /\ config.num_processes <= 1
  /\ IF max_pop(graph) = 0
     THEN step_fails_at_scores
     ELSE LET g == update_scores(graph, config)
              refs == Range(0, Len(all_refugees))
          IN \E d \in draw_assignments(refs, Sim(g)) :
               LET r == process_refs(refs, Sim(g), d)
               IN step_ends(g, <<r>>,
                            [StartOfStep("running") EXCEPT
                               !.draws = d, !.moves = r.moves, !.dests = r.dests])

\* process_refs raises an exception in the call of line 283 (a node without
\* one of the attributes read in lines 138-139, no memory for the deep copy
\* of line 153, ...): it leaves step at line 283 and run at line 311.  The
\* scores of lines 244-268 are set by then.
step_sequential_fails ==
  /\ pc = "run"
  /\ x < config.num_steps
  /\ config.num_processes <= 1
  /\ max_pop(graph) /= 0
  /\ graph' = update_scores(graph, config)
  /\ pc' = "error"
  /\ error' = "Exception"
  /\ last' = StartOfStep("failed")
  /\ UNCHANGED <<config, all_refugees, num_refugees, index, x, results>>

\* The chunks of line 274.
chunked_refs == array_split(Len(all_refugees), config.num_batches)

\* One iteration of the loop of run with num_processes > 1, up to pool.map
\* (lines 241-278): the scores are updated and the chunks handed out.
step_fan_out ==
  /\ pc = "run"
  /\ x < config.num_steps
  /\ config.num_processes > 1
  /\ IF max_pop(graph) = 0
     THEN step_fails_at_scores
     ELSE /\ graph' = update_scores(graph, config)
          /\ results' = [b \in 1..config.num_batches |-> [ready |-> FALSE, value |-> <<>>]]
          /\ pc' = "map"
          /\ last' = StartOfStep("running")
          /\ UNCHANGED <<config, all_refugees, num_refugees, index, x, error>>

\* process_batch that also puts the agents of the chunk into all_refugees
\* as soon as the worker returns them.
process_batch_streaming(b) ==
  /\ pc = "map"
  /\ ~results[b].ready
  /\ \E d \in draw_assignments(chunked_refs[b], Sim(graph)) :
       LET r == process_refs(chunked_refs[b], Sim(graph), d)
           at(i) == CHOOSE k \in 1..Len(chunked_refs[b]) : chunked_refs[b][k] = i - 1
           mine(i) == (i - 1) \in Elems(chunked_refs[b])
       IN /\ results' = [results EXCEPT ![b] = [ready |-> TRUE, value |-> r]]
          /\ all_refugees' = [i \in 1..Len(all_refugees) |->
                                IF mine(i) THEN r.new_refs[at(i)] ELSE all_refugees[i]]
          /\ last' = [last EXCEPT
               !.draws = [i \in 1..Len(all_refugees) |-> IF mine(i) THEN d[i] ELSE @[i]],
               !.moves = [i \in 1..Len(all_refugees) |-> IF mine(i) THEN r.moves[at(i)] ELSE @[i]],
               !.dests = [i \in 1..Len(all_refugees) |-> IF mine(i) THEN r.dests[at(i)] ELSE @[i]]]
  /\ UNCHANGED <<config, graph, num_refugees, pc, index, x, error>>

\* A worker of the pool runs process_refs on chunk b of the Sim it was sent.
process_batch(b) ==
  /\ pc = "map"
  /\ ~results[b].ready
  /\ \E d \in draw_assignments(chunked_refs[b], Sim(graph)) :
       LET r == process_refs(chunked_refs[b], Sim(graph), d)
           at(i) == CHOOSE k \in 1..Len(chunked_refs[b]) : chunked_refs[b][k] = i - 1
           mine(i) == (i - 1) \in Elems(chunked_refs[b])
       IN /\ results' = [results EXCEPT ![b] = [ready |-> TRUE, value |-> r]]
          /\ last' = [last EXCEPT
               !.draws = [i \in 1..Len(all_refugees) |-> IF mine(i) THEN d[i] ELSE @[i]],
               !.moves = [i \in 1..Len(all_refugees) |-> IF mine(i) THEN r.moves[at(i)] ELSE @[i]],
               !.dests = [i \in 1..Len(all_refugees) |-> IF mine(i) THEN r.dests[at(i)] ELSE @[i]]]
  /\ UNCHANGED <<config, graph, all_refugees, num_refugees, pc, index, x, error>>

\* batch_fails keeping the agents of the results that are in.
batch_fails_partial(b) ==
  /\ pc = "map"
  /\ ~results[b].ready
  /\ pc' = "error"
  /\ error' = "Exception"
  /\ all_refugees' =
       Flatten([c \in 1..Len(results) |->
                  IF results[c].ready THEN results[c].value.new_refs ELSE <<>>])
  /\ last' = [last EXCEPT !.status = "failed"]
  /\ UNCHANGED <<config, graph, num_refugees, index, x, results>>

\* process_refs raises an exception in the worker of chunk b: pool.map
\* raises it again in the parent, at line 278, whatever the other workers
\* have returned; it leaves step there and run at line 311.
batch_fails(b) ==
  /\ pc = "map"
  /\ ~results[b].ready
  /\ pc' = "error"
  /\ error' = "Exception"
  /\ last' = [last EXCEPT !.status = "failed"]
  /\ UNCHANGED <<config, graph, all_refugees, num_refugees, index, x, results>>

\* pool.map has returned the results of all chunks, in chunk order; the
\* step goes on from line 279 to its end.
step_fan_in ==
  /\ pc = "map"
  /\ \A b \in 1..Len(results) : results[b].ready
  /\ step_ends(graph, [b \in 1..Len(results) |-> results[b].value], last)

Next ==
  \/ create_defined_social_links
  \/ create_random_social_links
  \/ partner_loop_spins
  \/ step_sequential
  \/ step_sequential_fails
  \/ step_fan_out
  \/ \E b \in 1..Len(results) : process_batch(b)
  \/ \E b \in 1..Len(results) : batch_fails(b)
  \/ step_fan_in

Spec == Init /\ [][Next]_vars

(* ------------- the scores and the chunks, on their own ---------------- *)

\* Graphs without edges in which the weights vary with the camps, or with
\* the conflicts: every node has a weight and a count of at most MaxCount.
ScoreGraphs ==
  LET counts == [Nodes -> 0..MaxCount]
      zero == [n \in Nodes |-> 0]
      loc == [n \in Nodes |-> Rat(1, 2)]
  IN {Graph(<<>>, w, zero, c, loc) : w \in counts, c \in counts}
     \cup {Graph(<<>>, w, c, zero, loc) : w \in counts, c \in counts}

\* Sim.__init__ for such a graph, with num_batches from 1 to MaxBatches.
PureInit ==
  \E g \in ScoreGraphs, k \in 1..MaxBatches :
    /\ config = Config(SourcePercents, SourceWeights, <<2, k>>, <<0, <<1>>>>, IntSpec(0), 1)
    /\ graph = g
    /\ all_refugees = initial_refugees(g)
    /\ num_refugees = SeqSum(Values(g.nodes, g.weight))
    /\ pc = "scores"
    /\ index = 0
    /\ x = 0
    /\ results = <<>>
    /\ error = "none"
    /\ last = NoHistory

\* Lines 241-268 alone; last keeps the lists num_camps and num_conflicts of
\* lines 253 and 258, which the code does not store.
recompute_scores ==
  /\ pc = "scores"
  /\ IF max_pop(graph) = 0
     THEN /\ pc' = "error"
          /\ error' = "ZeroDivisionError"
          /\ UNCHANGED <<graph, last>>
     ELSE /\ pc' = "scored"
          /\ graph' = update_scores(graph, config)
          /\ last' = [status |-> "scored",
                      num_camps |-> norm_camps(graph),
                      num_conflicts |-> norm_conflicts(graph)]
          /\ UNCHANGED error
  /\ UNCHANGED <<config, all_refugees, num_refugees, index, x, results>>

\* Line 274 alone: results keeps chunked_refs.
split_refs ==
  /\ results = <<>>
  /\ results' = chunked_refs
  /\ UNCHANGED <<config, graph, all_refugees, num_refugees, pc, index, x, error, last>>

PureNext == recompute_scores \/ split_refs

PureSpec == PureInit /\ [][PureNext]_vars

(* ------------------------------ properties --------------------------- *)

\* The number of agents of refs located at node n
AgentsAt(refs, n) == Cardinality({i \in 1..Len(refs) : refs[i].node = n})

TotalWeight(g) == SeqSum(Values(g.nodes, g.weight))

\* The last step ran to its end without an exception.
Completed == last.status = "completed"

\* The node agent index i - 1 was at when the last step started, and the
\* neighbors of that node.
NodeBefore(i) == last.all_refugees[i].node

NeighborsBefore(i) == neighbors(last.graph, NodeBefore(i))

\* The Sim that process_refs read in the last step: the state the step
\* started from, with the scores of lines 244-268.
SimBefore ==
  [config |-> config,
   graph |-> update_scores(last.graph, config),
   all_refugees |-> last.all_refugees]

\* C1: after every completed step with seed_refs = 0, the weight of every
\* node is the number of agents located at it.
C1_WeightIsAgentCount ==
  (Completed /\ config.seed_refs = 0) =>
    \A n \in Nodes : graph.weight[n] = AgentsAt(all_refugees, n)

\* C2: without seeding, from construction on, the sum of the node weights
\* equals len(all_refugees) and is the same before and after each step.
C2_Conservation ==
  config.seed_refs = 0 =>
    /\ TotalWeight(graph) = Len(all_refugees)
    /\ last.status /= "none" => TotalWeight(graph) = TotalWeight(last.graph)

\* A second step has completed without seeding, and it moved an agent.
C2_Witness ==
  /\ Completed
  /\ config.seed_refs = 0
  /\ x = 2
  /\ \E i \in 1..Len(all_refugees) : all_refugees[i].node /= NodeBefore(i)

\* What the step of line 283 (num_processes = 1: one call of process_refs on
\* all agents) makes of the state the last step started from, with the
\* draws of the last step.
SequentialOutcome ==
  LET refs == Range(0, Len(last.all_refugees))
      r == process_refs(refs, SimBefore, last.draws)
  IN finish_step(config, SimBefore.graph, last.num_refugees, <<r>>)

\* C3: a step run with num_processes > 1 over num_batches chunks ends with
\* the agent locations, index by index, and the node weights that the
\* sequential step gives from the same state with the same draws.
C3_Determinism ==
  (Completed /\ config.num_processes > 1) =>
    /\ Len(all_refugees) = Len(SequentialOutcome.all_refugees)
    /\ \A i \in 1..Len(all_refugees) :
         all_refugees[i].node = SequentialOutcome.all_refugees[i].node
    /\ graph.weight = SequentialOutcome.graph.weight

\* A step over two non-empty chunks has completed; the two agents were drawn
\* different values and ended at different nodes.
C3_Witness ==
  /\ Completed
  /\ config.num_processes > 1
  /\ config.num_batches = 2
  /\ Len(all_refugees) = 2
  /\ last.draws[1] /= last.draws[2]
  /\ all_refugees[1].node /= all_refugees[2].node
  /\ all_refugees[1].node /= NodeBefore(1)

\* C4: across a step without seeding the number of agents is unchanged and
\* the agent at every index is the agent that was there, with the same
\* kin_list and friend_list.
C4_Identity ==
  (Completed /\ config.seed_refs = 0) =>
    /\ Len(all_refugees) = Len(last.all_refugees)
    /\ \A i \in 1..Len(all_refugees) :
         /\ all_refugees[i].id = last.all_refugees[i].id
         /\ all_refugees[i].kin_list = last.all_refugees[i].kin_list
         /\ all_refugees[i].friend_list = last.all_refugees[i].friend_list

\* A step has moved an agent that has a kin and a friend.
C4_Witness ==
  /\ Completed
  /\ config.seed_refs = 0
  /\ \E i \in 1..Len(all_refugees) :
       /\ all_refugees[i].node /= NodeBefore(i)
       /\ all_refugees[i].kin_list /= {}
       /\ all_refugees[i].friend_list /= {}

\* C5: in every state the kin and the friend relation are symmetric, and no
\* agent is its own kin or friend.
C5_SocialSymmetry ==
  \A a, b \in 0..(Len(all_refugees) - 1) :
    /\ b \in all_refugees[a + 1].kin_list <=> a \in all_refugees[b + 1].kin_list
    /\ b \in all_refugees[a + 1].friend_list <=> a \in all_refugees[b + 1].friend_list
    /\ a \notin all_refugees[a + 1].kin_list
    /\ a \notin all_refugees[a + 1].friend_list

\* Seeding has appended agents to a population that has kin and friends.
C5_Witness ==
  /\ Len(all_refugees) > last.num_refugees
  /\ last.status = "failed"
  /\ \E a \in 1..Len(all_refugees) :
       all_refugees[a].kin_list /= {} /\ all_refugees[a].friend_list /= {}

\* C6: an agent whose decision is 'move' and whose node has a neighbor is at
\* one of the neighbors after the step.
C6_MoverReachesNeighbor ==
  Completed =>
    \A i \in 1..Len(last.all_refugees) :
      (last.moves[i] /\ NeighborsBefore(i) /= <<>>) =>
        all_refugees[i].node \in Elems(NeighborsBefore(i))

\* C7: an agent at a node without neighbors keeps its location; without
\* seeding, and unless process_refs was made to fail, the step raises no
\* error, and it leaves the weight of that node as it was.
C7_IsolateStays ==
  \A i \in 1..Len(last.all_refugees) :
    NeighborsBefore(i) = <<>> =>
      /\ all_refugees[i].node = NodeBefore(i)
      /\ config.seed_refs = 0 =>
           /\ error \in {"none", "Exception"}
           /\ error = "none" => Completed \/ pc = "map"
           /\ graph.weight[NodeBefore(i)] = last.graph.weight[NodeBefore(i)]

\* A step has completed for an agent at a node without neighbors that has a
\* conflict.
C7_Witness ==
  /\ Completed
  /\ \E i \in 1..Len(last.all_refugees) :
       /\ NeighborsBefore(i) = <<>>
       /\ last.graph.num_conflicts[NodeBefore(i)] > 0
       /\ last.moves[i]

\* C8: with percent_move_other = 0 and neither conflicts nor camps at any
\* node, a step leaves every agent's location and every node's weight as
\* they were.
C8_NoOpStability ==
  ( /\ Completed
    /\ config.percent_move_other = Rat(0, 1)
    /\ \A n \in Nodes : graph.num_conflicts[n] = 0 /\ graph.num_camps[n] = 0 ) =>
    /\ \A i \in 1..Len(last.all_refugees) : all_refugees[i].node = NodeBefore(i)
    /\ graph.weight = last.graph.weight

\* Such a step has completed for an agent whose node has a neighbor.
C8_Witness ==
  /\ Completed
  /\ config.percent_move_other = Rat(0, 1)
  /\ \A n \in Nodes : graph.num_conflicts[n] = 0 /\ graph.num_camps[n] = 0
  /\ \E i \in 1..Len(last.all_refugees) :
       NeighborsBefore(i) /= <<>> /\ last.draws[i] \in Draws

FirstBest(i) ==
  LET nbrs == NeighborsBefore(i)
      d(k) == desirability(SimBefore, i - 1, nbrs[k])
      k0 == CHOOSE k \in 1..Len(nbrs) :
              /\ \A j \in 1..Len(nbrs) : ~RatGt(d(j), d(k))
              /\ \A j \in 1..(k - 1) : RatLt(d(j), d(k))
  IN nbrs[k0]

\* C10: for an agent that moves, the destination chosen is the neighbor of
\* greatest desirability, the earliest such neighbor in a tie.
C10_DestinationIsBest ==
  Completed =>
    \A i \in 1..Len(last.all_refugees) :
      (last.moves[i] /\ NeighborsBefore(i) /= <<>>) => last.dests[i] = FirstBest(i)

\* C11: when process_refs fails for a batch, the step ends there: the agents,
\* num_refugees and every node's weight are those the step started from,
\* whatever the other batches have returned, and the program takes no
\* further step.
C11_FailFast ==
  /\ [](error = "Exception" =>
          /\ pc = "error"
          /\ last.status = "failed"
          /\ all_refugees = last.all_refugees
          /\ num_refugees = last.num_refugees
          /\ graph.weight = last.graph.weight)
  /\ [][error /= "Exception"]_vars

\* A batch has failed after another batch had returned an agent that moves.
C11_Witness ==
  /\ error = "Exception"
  /\ \E b \in 1..Len(results) :
       /\ results[b].ready
       /\ \E k \in 1..Len(results[b].value.moves) :
            results[b].value.moves[k] /\ Truthy(results[b].value.dests[k])

\* C12: a step started on a graph all of whose nodes have weight 0 ends
\* without an error, with norm_weight = 0 at every node.
C12_ZeroPopulationFloor ==
  (last.status /= "none" /\ max_pop(last.graph) = 0 /\ config.seed_refs = 0) =>
    /\ error = "none"
    /\ last.status = "completed" \/ pc = "map"
    /\ \A n \in Nodes : graph.norm_weight[n] = Rat(0, 1)

\* The agents and the weights the merge of lines 285-293 makes of the state
\* the last step started from, with the draws of the last step.
MergedBefore ==
  LET r == process_refs(Range(0, Len(last.all_refugees)), SimBefore, last.draws)
  IN [all_refugees |-> merge_refugees(<<r>>),
      weight |-> merge_weights(SimBefore.graph, <<r>>)]

\* The seeding of lines 295-301 has run in the last step, with seed nodes
\* that are all in the graph: the step went on to line 303.
SeedingRan ==
  /\ config.seed_refs > 0
  /\ \A k \in 1..Len(config.seed_nodes) : config.seed_nodes[k] \in Nodes
  /\ Completed \/ error = "AttributeError"

\* C13: when the seeding of a step has run, every seed node's weight is its
\* merged weight plus seed_refs (for each time it is listed), the agents
\* merged keep their indices, seed_refs new agents per seed node follow them,
\* located at that node, and the total weight and len(all_refugees) have
\* both grown by seed_refs * len(seed_nodes) and are equal.
C13_SeedingAddsPopulation ==
  SeedingRan =>
    LET old == Len(last.all_refugees)
        sr == config.seed_refs
        sn == config.seed_nodes
    IN /\ \A n \in Nodes :
            graph.weight[n] = MergedBefore.weight[n] + sr * Count(sn, n)
       /\ Len(all_refugees) = old + sr * Len(sn)
       /\ \A i \in 1..old : all_refugees[i] = MergedBefore.all_refugees[i]
       /\ \A k \in 1..Len(sn) : \A j \in 1..sr :
            all_refugees[old + (k - 1) * sr + j].node = sn[k]
       /\ TotalWeight(graph) = TotalWeight(last.graph) + sr * Len(sn)
       /\ TotalWeight(graph) = Len(all_refugees)

\* Seeding has run with two agents for each of two seed nodes, after a step
\* that moved an agent.
C13_Witness ==
  /\ SeedingRan
  /\ config.seed_refs = 2
  /\ Len(config.seed_nodes) = 2
  /\ \E i \in 1..Len(last.all_refugees) : all_refugees[i].node /= NodeBefore(i)

\* C14: a step with seed_refs > 0 (seed nodes in the graph, process_refs not
\* failing) completes, and with num_kin >= 1 and num_friends >= 1 every agent
\* it appended has a kin and a friend.
C14_SeedingExtendsSocialGraph ==
  ( /\ config.seed_refs > 0
    /\ \A k \in 1..Len(config.seed_nodes) : config.seed_nodes[k] \in Nodes
    /\ last.status \in {"completed", "failed"}
    /\ error \notin {"Exception", "ZeroDivisionError"} ) =>
    /\ error = "none"
    /\ Completed
    /\ (config.num_kin.lo >= 1 /\ config.num_friends.lo >= 1) =>
         \A i \in (Len(last.all_refugees) + 1)..Len(all_refugees) :
           all_refugees[i].kin_list /= {} /\ all_refugees[i].friend_list /= {}

\* C15: construction never enters a partner loop that has no exit, and the
\* construction of a population of fewer than 2 agents with a kin or friend
\* count of at least 1 ends with a configuration error.
C15_ConstructionTerminates ==
  /\ pc /= "loop"
  /\ ( /\ pc /= "construct"
       /\ Len(initial_refugees(graph)) < 2
       /\ last.status = "none"
       /\ config.num_kin.lo >= 1 \/ config.num_friends.lo >= 1 ) =>
       error = "ConfigurationError"

\* What process_refs read in the last step if the scores it read are those
\* the graph has now.
SimScored ==
  [config |-> config,
   graph |-> [last.graph EXCEPT !.node_score = graph.node_score],
   all_refugees |-> last.all_refugees]

\* The state part of C16.
DriverSequencing ==
  /\ x <= config.num_steps
  /\ pc = "run" => x < config.num_steps
  /\ pc = "done" => (x = config.num_steps /\ error = "none" /\ Completed)
  /\ (last.status = "running" \/ Completed) =>
       \* the scores are those of the weights the step started from
       /\ \A n \in Nodes :
            graph.norm_weight[n] = Rat(last.graph.weight[n], max_pop(last.graph))
       /\ graph.node_score = SimBefore.graph.node_score
  /\ Completed =>
       \* every destination was found with these scores
       /\ \A i \in 1..Len(last.all_refugees) :
            last.moves[i] => last.dests[i] = find_new_node(SimScored, NodeBefore(i), i - 1)
       \* the merged agents and weights have replaced the old ones
       /\ config.seed_refs = 0 =>
            /\ all_refugees = MergedBefore.all_refugees
            /\ graph.weight = MergedBefore.weight
  /\ SeedingRan =>
       \* the agents seeded follow the merged ones
       \A i \in 1..Len(last.all_refugees) : all_refugees[i] = MergedBefore.all_refugees[i]

InUnit(v) == ~RatLt(v, Rat(0, 1)) /\ ~RatGt(v, Rat(1, 1))

\* 0 < v < 1
InsideUnit(v) == RatGt(v, Rat(0, 1)) /\ RatLt(v, Rat(1, 1))

\* C17: after the scores are recomputed, norm_weight, the normalised
\* num_camps and the normalised num_conflicts of every node are in [0, 1].
C17_NormalizationBounds ==
  pc = "scored" =>
    \A n \in Nodes :
      /\ InUnit(graph.norm_weight[n])
      /\ InUnit(last.num_camps[n])
      /\ InUnit(last.num_conflicts[n])

\* Scores were recomputed for a graph in which a weight and a count of camps
\* are below the largest.
C17_Witness ==
  /\ pc = "scored"
  /\ \E n \in Nodes : InsideUnit(graph.norm_weight[n])
  /\ \E n \in Nodes : InsideUnit(last.num_camps[n])

\* C19: the chunks are num_batches lists which, put one after the other in
\* their order, are 0, 1, ..., N - 1: contiguous, increasing, disjoint and
\* covering every index once.
C19_BatchPartition ==
  results /= <<>> =>
    /\ Len(results) = config.num_batches
    /\ Flatten(results) = Range(0, Len(all_refugees))

\* The chunks of a population that num_batches does not divide.
C19_Witness ==
  /\ results /= <<>>
  /\ Len(all_refugees) > config.num_batches
  /\ Len(all_refugees) % config.num_batches /= 0
  /\ config.num_batches > 1

\* C18: while pool.map is waiting for a result, all_refugees and the weights
\* are those the step started from; when the step has merged the results,
\* whatever the order in which the workers returned them, the agent at every
\* index is the agent that was at that index.
C18_FanInOrdering ==
  /\ pc = "map" =>
       /\ last.status = "running"
       /\ all_refugees = last.all_refugees
       /\ graph.weight = last.graph.weight
  /\ ((Completed \/ SeedingRan) /\ config.num_processes > 1) =>
       \A i \in 1..Len(last.all_refugees) :
         /\ all_refugees[i].id = i - 1
         /\ all_refugees[i].id = last.all_refugees[i].id

\* The worker of the second chunk has returned an agent that moves while
\* the worker of the first chunk, which is not empty, has not returned.
C18_Witness ==
  /\ pc = "map"
  /\ Len(results) = 2
  /\ ~results[1].ready
  /\ chunked_refs[1] /= <<>>
  /\ results[2].ready
  /\ \E k \in 1..Len(results[2].value.moves) :
       results[2].value.moves[k] /\ Truthy(results[2].value.dests[k])

\* Nodes a and b are joined by an edge of g.
Adjacent(g, a, b) ==
  \E k \in 1..Len(g.edges) : g.edges[k] = <<a, b>> \/ g.edges[k] = <<b, a>>

\* C20: every agent is at a node of the graph; after a step has run, every
\* agent it started with is where it was or at a node joined to that node
\* by an edge, so that no agent has moved to a node without edges.
C20_OneHop ==
  /\ \A i \in 1..Len(all_refugees) : all_refugees[i].node \in Nodes
  /\ last.status /= "none" =>
       \A i \in 1..Len(last.all_refugees) :
         /\ i <= Len(all_refugees)
         /\ \/ all_refugees[i].node = NodeBefore(i)
            \/ Adjacent(last.graph, NodeBefore(i), all_refugees[i].node)
         /\ all_refugees[i].node /= NodeBefore(i) =>
              \E n \in Nodes : Adjacent(graph, all_refugees[i].node, n)

\* An agent has moved to a neighbor although a node that is no neighbor of
\* its node has a greater node_score.
C20_Witness ==
  /\ Completed
  /\ \E i \in 1..Len(last.all_refugees) : \E n \in Nodes :
       /\ all_refugees[i].node /= NodeBefore(i)
       /\ n /= NodeBefore(i)
       /\ ~Adjacent(last.graph, NodeBefore(i), n)
       /\ RatGt(graph.node_score[n], graph.node_score[all_refugees[i].node])

\* What process_refs read in the last step if the locations it read were
\* those the agents have now.
SimMoved == [SimBefore EXCEPT !.all_refugees = all_refugees]

\* C21: the destination found for every agent that moves in a step is the
\* one find_new_node gives with the locations all agents had when the step
\* started and the scores of the weights it started from, whatever the
\* agent's place in the order of processing and whatever the chunks.
C21_SynchronousUpdate ==
  Completed =>
    \A i \in 1..Len(last.all_refugees) :
      last.moves[i] => last.dests[i] = find_new_node(SimBefore, NodeBefore(i), i - 1)

\* A step has moved an agent and then found, for a kin of that agent that is
\* processed after it, a destination other than the one the new locations
\* would give.
C21_Witness ==
  /\ Completed
  /\ \E i, j \in 1..Len(last.all_refugees) :
       /\ i < j
       /\ (i - 1) \in last.all_refugees[j].kin_list
       /\ all_refugees[i].node /= NodeBefore(i)
       /\ last.moves[j]
       /\ find_new_node(SimMoved, NodeBefore(j), j - 1) /= last.dests[j]

\* C22: whenever control is outside Sim.step, num_refugees equals
\* len(all_refugees).
C22_CounterConsistency ==
  pc \in {"construct", "loop", "run", "done", "error"} =>
    num_refugees = Len(all_refugees)

====
